---- MODULE Spec2Model ----
(***************************************************************************)
(* Presence ledger (check-in / check-out), vehicle presence mirror,        *)
(* monthly visit counter, account login and approval, incident status, and *)
(* the directory of owners and vehicles of the access-control backend.     *)
(*                                                                         *)
(* Every route handler is split at its awaits: one action per store call,  *)
(* so that two requests interleave exactly where the event loop lets them. *)
(* Dates are counted in ticks of 30 seconds since the epoch (UTC); note    *)
(* texts are represented by their length, which is all that the schema     *)
(* validators look at.                                                     *)
(***************************************************************************)
EXTENDS Integers, Sequences, FiniteSets, TLC

VARIABLES impl, logs, vlogs, visits, req, lastResp, incCalls, active, lastOp,
          users, tokens, authResp, areq,
          incidents, ireq, incidentResp,
          people, vehicles, found, dirResp

vars == <<impl, logs, vlogs, visits, req, lastResp, incCalls, active, lastOp,
          users, tokens, authResp, areq, incidents, ireq, incidentResp,
          people, vehicles, found, dirResp>>

ledgerVars ==
  <<impl, logs, vlogs, visits, req, lastResp, incCalls, active, lastOp>>
authVars == <<users, tokens, authResp, areq>>
incidentVars == <<incidents, ireq, incidentResp>>
dirVars == <<people, vehicles, found, dirResp>>

----------------------------------------------------------------------------
(* Bounds *)

MaxProc == 2
MaxLogs == 2
MaxUsers == 2
MaxVisits == 3
MaxIncidents == 1
MaxPeople == 2
MaxVehicles == 2

----------------------------------------------------------------------------
(* Dates *)

TicksPerMinute == 2
JanTicks == 31 * 24 * 60 * TicksPerMinute
FebTicks == 28 * 24 * 60 * TicksPerMinute
FirstTick == JanTicks - 1

Absent == 0 - 1

TickStep == 3
\* One date at the end of January and one at the start of February.
Times == {FirstTick, FirstTick + TickStep}

\* visitDate.toISOString().slice(0, 7) for dates of the first quarter of 1970
MonthKey(t) ==
  IF t < JanTicks THEN "1970-01"
  ELSE IF t < JanTicks + FebTicks THEN "1970-02"
  ELSE "1970-03"

\* Dates handed to the visit counter: two of January and one of February.
VisitDates == Times \cup {FirstTick - TickStep}

Months == {MonthKey(t) : t \in VisitDates}

----------------------------------------------------------------------------
(* Inputs *)

Procs == 1..MaxProc
PersonIds == {1}
SupplierIds == {1, 2}
PersonTypes == {"Supplier", "Worker", "LeoniPersonnel"}
VehicleIds == {1}
NoteLens == {0}
ManualNoteLens == {0}
StatusInputs == {"", "exit", "present"}

NotesMax == 500
VehicleNotesMax == 300
SepLen == 3
ManualTagLen == 14

----------------------------------------------------------------------------
(* Documents *)

Min(S) == CHOOSE x \in S : \A y \in S : x <= y
Max2(a, b) == IF a >= b THEN a ELSE b

NoDoc ==
  [person |-> 0, personType |-> "", status |-> "", entryTime |-> Absent,
   exitTime |-> Absent, duration |-> 0, notes |-> 0, vehicle |-> 0]

Idle ==
  [op |-> "idle", pc |-> "idle", person |-> 0, personType |-> "", id |-> 0,
   vid |-> 0, doc |-> NoDoc, veh |-> 0, vnotes |-> 0, monthly |-> Absent]

\* The last response sent: the operation, the kind of result ("ok" for
\* the 200/201 responses, the failure otherwise), the entry it is about and the
\* monthlyVisitCount field (Absent for null).
NoResp ==
  [op |-> "none", kind |-> "", person |-> 0, personType |-> "",
   monthly |-> Absent]

Resp(op, kind, doc, monthly) ==
  [op |-> op, kind |-> kind, person |-> doc.person,
   personType |-> doc.personType, monthly |-> monthly]

Who(person, ptype) == [NoDoc EXCEPT !.person = person, !.personType = ptype]

\* The filter with status: 'present' in place of $in: ['entry', 'present'].
IsOpenPresentOnly(e) == e.status = "present" /\ e.exitTime = Absent

\* Filter of the "active entry" query used by check-in and check-out.
IsOpen(e) == e.status \in {"entry", "present"} /\ e.exitTime = Absent

\* The query with exitTime: { $exists: true } in place of $exists: false.
FindOpenExitExists(coll, person, ptype) ==
  {i \in DOMAIN coll : /\ coll[i].person = person
                       /\ coll[i].personType = ptype
                       /\ coll[i].status \in {"entry", "present"}
                       /\ coll[i].exitTime # Absent}

\* The query without its personType condition.
FindOpenAnyType(coll, person, ptype) ==
  {i \in DOMAIN coll : /\ coll[i].person = person
                       /\ IsOpen(coll[i])}

FindOpen(coll, person, ptype) ==
  {i \in DOMAIN coll : /\ coll[i].person = person
                       /\ coll[i].personType = ptype
                       /\ IsOpen(coll[i])}

\* Schema validators shared by Log and AccessLog documents.
EntryValid(d) ==
  /\ d.person # 0
  /\ d.personType \in PersonTypes
  /\ d.status \in {"entry", "exit", "present"}
  /\ (d.status \in {"entry", "present"} => d.entryTime # Absent)
  /\ (d.status = "exit" => d.exitTime # Absent)
  /\ d.duration >= 0
  /\ d.notes <= NotesMax

\* Math.max(0, Math.floor((exit - entry) / (1000 * 60)))
CheckoutDuration(entry, exit) == Max2(0, (exit - entry) \div TicksPerMinute)

LogPreSave(d) ==
  IF d.entryTime # Absent /\ d.exitTime # Absent
    THEN [d EXCEPT !.duration =
            Max2(0, (d.exitTime - d.entryTime) \div TicksPerMinute)]
    ELSE d

AccessLogPreSave(d) ==
  IF d.entryTime # Absent /\ d.exitTime # Absent
    THEN [d EXCEPT !.duration = (d.exitTime - d.entryTime) \div TicksPerMinute]
    ELSE d

\* `${old} | ${new}` when the entry already has notes, else the new notes.
AppendNotes(old, new) == IF old # 0 THEN old + SepLen + new ELSE new

VehicleLogValid(v) ==
  /\ v.vehicle # 0
  /\ v.log # 0
  /\ v.entry_time # Absent
  /\ v.vehicleNotes <= VehicleNotesMax

VehicleLogsOf(id) == {i \in DOMAIN vlogs : vlogs[i].log = id}

----------------------------------------------------------------------------
(* Monthly visit counter *)

VisitHits(vs, s, m) ==
  {i \in DOMAIN vs : vs[i].supplier = s /\ vs[i].month = m}

\* The update { $set: { visitCount: 1 } } in place of { $inc: { visitCount: 1 } }.
incrementVisitSetOne(vs, s, t) ==
  LET m == MonthKey(t)
      hits == VisitHits(vs, s, m)
  IN IF hits = {}
       THEN Append(vs, [supplier |-> s, month |-> m, visitCount |-> 1,
                        lastVisit |-> t])
       ELSE [vs EXCEPT ![Min(hits)].visitCount = 1,
                       ![Min(hits)].lastVisit = t]

\* A plain insert of a fresh counter in place of the upsert.
incrementVisitInsert(vs, s, t) ==
  Append(vs, [supplier |-> s, month |-> MonthKey(t), visitCount |-> 1,
              lastVisit |-> t])

incrementVisit(vs, s, t) ==
  LET m == MonthKey(t)
      hits == VisitHits(vs, s, m)
  IN IF hits = {}
       THEN Append(vs, [supplier |-> s, month |-> m, visitCount |-> 1,
                        lastVisit |-> t])
       ELSE [vs EXCEPT ![Min(hits)].visitCount = @ + 1,
                       ![Min(hits)].lastVisit = t]

getVisitCount(vs, s, m) ==
  IF VisitHits(vs, s, m) = {} THEN 0
  ELSE vs[Min(VisitHits(vs, s, m))].visitCount

VisitKeys == SupplierIds \X Months

\* MonthlyVisit.incrementVisit(s, t) called on its own; the response carries
\* the visitCount of the returned document.
IncrementVisitCall(s, t) ==
  LET k == <<s, MonthKey(t)>>
      vs == incrementVisit(visits, s, t)
  IN /\ incCalls[k] < MaxVisits
     /\ visits' = vs
     /\ incCalls' = [incCalls EXCEPT ![k] = @ + 1]
     /\ lastResp' = [op |-> "incrementVisit", kind |-> "ok", person |-> s,
                     personType |-> "Supplier",
                     monthly |-> getVisitCount(vs, s, MonthKey(t))]
     /\ UNCHANGED <<impl, logs, vlogs, req, active, lastOp>>

----------------------------------------------------------------------------
(* Request bookkeeping *)

\* The persons that the ledger tells apart.
Persons == PersonIds \X PersonTypes

\* The response r ends the request of slot p. lastOp keeps, for every
\* person, the last check-in or check-out that was answered as a success.
Finish(p, r) ==
  /\ req' = [req EXCEPT ![p] = Idle]
  /\ lastResp' = r
  /\ lastOp' = IF /\ r.kind = "ok"
                  /\ r.op \in {"checkin", "checkout"}
                  /\ <<r.person, r.personType>> \in Persons
                 THEN [lastOp EXCEPT ![<<r.person, r.personType>>] = r.op]
                 ELSE lastOp
  /\ UNCHANGED active

Goto(p, r) ==
  /\ req' = [req EXCEPT ![p] = r]
  /\ UNCHANGED <<lastResp, active, lastOp>>

\* Requests that are about to insert a presence entry.
PendingInserts ==
  Cardinality({q \in Procs : req[q].op = "checkin" /\ req[q].pc = "save"})

HasRoom == Len(logs) + PendingInserts < MaxLogs

----------------------------------------------------------------------------
(* Presence ledger on the Log collection: POST /checkin *)

NewLog(person, ptype, t, n) ==
  [person |-> person, personType |-> ptype, status |-> "entry",
   entryTime |-> t, exitTime |-> Absent, duration |-> 0, notes |-> n,
   vehicle |-> 0]

\* Request validation and the query for an active entry.
LogCheckinFind(p, person, ptype, veh, t, n) ==
  /\ impl = "Log"
  /\ req[p].pc = "idle"
  /\ LET d == NewLog(person, ptype, t, n) IN
       IF person = 0
         THEN Finish(p, Resp("checkin", "required", d, Absent))
       ELSE IF ptype \notin PersonTypes
         THEN Finish(p, Resp("checkin", "invalidtype", d, Absent))
       ELSE IF FindOpen(logs, person, ptype) # {}
         THEN Finish(p, Resp("checkin", "already", d, Absent))
       ELSE /\ HasRoom
            /\ Goto(p, [Idle EXCEPT !.op = "checkin", !.pc = "save",
                                    !.person = person,
                                    !.personType = ptype,
                                    !.doc = d, !.veh = veh])
  /\ UNCHANGED <<impl, logs, vlogs, visits, incCalls>>

\* logEntry.save()
LogCheckinSave(p) ==
  /\ impl = "Log"
  /\ req[p].op = "checkin" /\ req[p].pc = "save"
  /\ LET d == req[p].doc
         id == Len(logs) + 1
     IN IF ~EntryValid(d)
          THEN /\ Finish(p, Resp("checkin", "error", d, Absent))
               /\ UNCHANGED logs
          ELSE /\ logs' = Append(logs, LogPreSave(d))
               /\ IF d.personType = "Supplier"
                    THEN Goto(p, [req[p] EXCEPT !.pc = "visit", !.id = id])
                  ELSE IF req[p].veh # 0
                    THEN Goto(p, [req[p] EXCEPT !.pc = "vehicle", !.id = id])
                  ELSE Finish(p, Resp("checkin", "ok", d, Absent))
  /\ UNCHANGED <<impl, vlogs, visits, incCalls>>

\* MonthlyVisit.incrementVisit(personId, visitDate)
LogCheckinVisit(p) ==
  /\ impl = "Log"
  /\ req[p].op = "checkin" /\ req[p].pc = "visit"
  /\ LET d == req[p].doc
         k == <<d.person, MonthKey(d.entryTime)>>
         vs == incrementVisit(visits, d.person, d.entryTime)
         n == getVisitCount(vs, d.person, MonthKey(d.entryTime))
     IN /\ visits' = vs
        /\ incCalls' = [incCalls EXCEPT ![k] = @ + 1]
        /\ IF req[p].veh # 0
             THEN Goto(p, [req[p] EXCEPT !.pc = "vehicle", !.monthly = n])
             ELSE Finish(p, Resp("checkin", "ok", d, n))
  /\ UNCHANGED <<impl, logs, vlogs>>

\* vehicleLog.save() with entry_time: new Date() in place of
\* savedLog.entryTime.
LogCheckinVehicleNow(p) ==
  /\ impl = "Log"
  /\ req[p].op = "checkin" /\ req[p].pc = "vehicle"
  /\ LET d == req[p].doc
         v == [vehicle |-> req[p].veh, log |-> req[p].id,
               entry_time |-> FirstTick + TickStep, exit_time |-> Absent,
               vehicleNotes |-> 0]
     IN IF VehicleLogValid(v)
          THEN /\ vlogs' = Append(vlogs, v)
               /\ Finish(p, Resp("checkin", "ok", d, req[p].monthly))
          ELSE /\ UNCHANGED vlogs
               /\ Finish(p, Resp("checkin", "error", d, Absent))
  /\ UNCHANGED <<impl, logs, visits, incCalls>>

\* vehicleLog.save()
LogCheckinVehicle(p) ==
  /\ impl = "Log"
  /\ req[p].op = "checkin" /\ req[p].pc = "vehicle"
  /\ LET d == req[p].doc
         v == [vehicle |-> req[p].veh, log |-> req[p].id,
               entry_time |-> d.entryTime, exit_time |-> Absent,
               vehicleNotes |-> 0]
     IN IF VehicleLogValid(v)
          THEN /\ vlogs' = Append(vlogs, v)
               /\ Finish(p, Resp("checkin", "ok", d, req[p].monthly))
          ELSE /\ UNCHANGED vlogs
               /\ Finish(p, Resp("checkin", "error", d, Absent))
  /\ UNCHANGED <<impl, logs, visits, incCalls>>

----------------------------------------------------------------------------
(* Presence ledger on the Log collection: POST /checkout *)

\* The query for the active entry and the in-memory update of the document.
LogCheckoutFind(p, person, ptype, t, n) ==
  /\ impl = "Log"
  /\ req[p].pc = "idle"
  /\ IF FindOpen(logs, person, ptype) = {}
       THEN Finish(p, Resp("checkout", "noactive", Who(person, ptype), Absent))
       ELSE \E id \in FindOpen(logs, person, ptype) :
              LET e == logs[id]
                  d == [e EXCEPT
                          !.exitTime = t,
                          !.status = "exit",
                          !.duration =
                             IF e.entryTime # Absent
                               THEN CheckoutDuration(e.entryTime, t)
                               ELSE 0,
                          !.notes = IF n # 0 THEN AppendNotes(e.notes, n)
                                    ELSE e.notes]
              IN Goto(p, [Idle EXCEPT !.op = "checkout", !.pc = "save",
                                      !.person = person,
                                      !.personType = ptype,
                                      !.id = id, !.doc = d, !.vnotes = n])
  /\ UNCHANGED <<impl, logs, vlogs, visits, incCalls>>

\* activeLog.save(): validation, then the pre-save hook, then the write of
\* the modified paths.
LogCheckoutSave(p) ==
  /\ impl = "Log"
  /\ req[p].op = "checkout" /\ req[p].pc = "save"
  /\ LET d == req[p].doc
         id == req[p].id
     IN IF ~EntryValid(d)
          THEN /\ Finish(p, Resp("checkout", "validation", d, Absent))
               /\ UNCHANGED logs
          ELSE /\ logs' = [logs EXCEPT ![id] =
                             [@ EXCEPT !.exitTime = d.exitTime,
                                       !.status = d.status,
                                       !.duration = LogPreSave(d).duration,
                                       !.notes = IF req[p].vnotes # 0
                                                   THEN d.notes ELSE @]]
               /\ Goto(p, [req[p] EXCEPT !.pc = "vfind",
                                         !.doc = LogPreSave(d)])
  /\ UNCHANGED <<impl, vlogs, visits, incCalls>>

\* Vehiculog.findOne({ log: activeLog._id })
LogCheckoutVFind(p) ==
  /\ impl = "Log"
  /\ req[p].op = "checkout" /\ req[p].pc = "vfind"
  /\ IF VehicleLogsOf(req[p].id) = {}
       THEN Finish(p, Resp("checkout", "ok", req[p].doc, Absent))
       ELSE \E vid \in VehicleLogsOf(req[p].id) :
              Goto(p, [req[p] EXCEPT !.pc = "vsave", !.vid = vid])
  /\ UNCHANGED <<impl, logs, vlogs, visits, incCalls>>

\* vehicleLog.save()
LogCheckoutVSave(p) ==
  /\ impl = "Log"
  /\ req[p].op = "checkout" /\ req[p].pc = "vsave"
  /\ LET vid == req[p].vid
         v == [vlogs[vid] EXCEPT
                 !.exit_time = req[p].doc.exitTime,
                 !.vehicleNotes = IF req[p].vnotes # 0 THEN req[p].vnotes
                                  ELSE @]
     IN IF VehicleLogValid(v)
          THEN /\ vlogs' = [vlogs EXCEPT ![vid] = v]
               /\ Finish(p, Resp("checkout", "ok", req[p].doc, Absent))
          ELSE /\ UNCHANGED vlogs
               /\ Finish(p, Resp("checkout", "validation", req[p].doc, Absent))
  /\ UNCHANGED <<impl, logs, visits, incCalls>>

----------------------------------------------------------------------------
(* GET /active: who is currently inside *)

\* find({ status: { $in: ['entry', 'present'] }, exitTime: { $exists: false } })
ActiveFilter(coll) == {i \in DOMAIN coll : IsOpen(coll[i])}

\* The ways of listing the ids of S, each once.
Orderings(S) ==
  {s \in [1..Cardinality(S) -> S] : \A a, b \in 1..Cardinality(S) :
                                      a # b => s[a] # s[b]}

\* sort({ entryTime: 1 })
EntryTimeAscending(s, coll) ==
  \A a, b \in DOMAIN s :
    a < b => coll[s[a]].entryTime <= coll[s[b]].entryTime

\* sort({ entryTime: -1 }); entries of equal entryTime come in any order.
EntryTimeDescending(s, coll) ==
  \A a, b \in DOMAIN s :
    a < b => coll[s[a]].entryTime >= coll[s[b]].entryTime

GetActive ==
  /\ \E s \in Orderings(ActiveFilter(logs)) :
       /\ EntryTimeDescending(s, logs)
       /\ active' = s
  /\ lastResp' = Resp("active", "ok", NoDoc, Absent)
  /\ UNCHANGED <<impl, logs, vlogs, visits, req, incCalls, lastOp>>

----------------------------------------------------------------------------
(* Store failures during the side effects of the Log router *)

\* The counter failure without the try / catch around incrementVisit: the
\* rejection reaches the handler's catch and the request is answered 500.
LogCheckinVisitFailUncaught(p) ==
  /\ impl = "Log"
  /\ req[p].op = "checkin" /\ req[p].pc = "visit"
  /\ Finish(p, Resp("checkin", "error", req[p].doc, Absent))
  /\ UNCHANGED <<impl, logs, vlogs, visits, incCalls>>

\* MonthlyVisit.incrementVisit rejects: the inner catch logs the error and
\* the handler goes on with monthlyVisitRecord = null.
LogCheckinVisitFail(p) ==
  /\ impl = "Log"
  /\ req[p].op = "checkin" /\ req[p].pc = "visit"
  /\ IF req[p].veh # 0
       THEN Goto(p, [req[p] EXCEPT !.pc = "vehicle", !.monthly = Absent])
       ELSE Finish(p, Resp("checkin", "ok", req[p].doc, Absent))
  /\ UNCHANGED <<impl, logs, vlogs, visits, incCalls>>

\* vehicleLog.save() of the check-in rejects: the handler's catch answers 500.
LogCheckinVehicleFail(p) ==
  /\ impl = "Log"
  /\ req[p].op = "checkin" /\ req[p].pc = "vehicle"
  /\ Finish(p, Resp("checkin", "error", req[p].doc, Absent))
  /\ UNCHANGED <<impl, logs, vlogs, visits, incCalls>>

\* vehicleLog.save() of the check-out rejects: the handler's catch answers 500.
LogCheckoutVSaveFail(p) ==
  /\ impl = "Log"
  /\ req[p].op = "checkout" /\ req[p].pc = "vsave"
  /\ Finish(p, Resp("checkout", "error", req[p].doc, Absent))
  /\ UNCHANGED <<impl, logs, vlogs, visits, incCalls>>

----------------------------------------------------------------------------
(* Presence ledger on the AccessLog collection: POST /checkin *)

NewAccessLog(person, ptype, veh, t, n) ==
  [person |-> person, personType |-> ptype, status |-> "entry",
   entryTime |-> t, exitTime |-> Absent, duration |-> 0, notes |-> n,
   vehicle |-> veh]

\* The vehicle log document of the AccessLog routes, linked by accessLog.
AccessVehicleLog(veh, id, entry, exit, n) ==
  [vehicle |-> veh, log |-> id, entry_time |-> entry, exit_time |-> exit,
   vehicleNotes |-> n]

AccessCheckinFind(p, person, ptype, veh, t, n) ==
  /\ impl = "AccessLog"
  /\ req[p].pc = "idle"
  /\ LET d == NewAccessLog(person, ptype, veh, t, n) IN
       IF person = 0
         THEN Finish(p, Resp("checkin", "required", d, Absent))
       ELSE IF FindOpen(logs, person, ptype) # {}
         THEN Finish(p, Resp("checkin", "already", d, Absent))
       ELSE /\ HasRoom
            /\ Goto(p, [Idle EXCEPT !.op = "checkin", !.pc = "save",
                                    !.person = person,
                                    !.personType = ptype,
                                    !.doc = d, !.veh = veh])
  /\ UNCHANGED <<impl, logs, vlogs, visits, incCalls>>

\* accessLog.save(): validation, then the pre-save hook, then the insert.
AccessInsert(p, op) ==
  /\ impl = "AccessLog"
  /\ req[p].op = op /\ req[p].pc = "save"
  /\ LET d == req[p].doc
         id == Len(logs) + 1
     IN IF ~EntryValid(d)
          THEN /\ Finish(p, Resp(op, "error", d, Absent))
               /\ UNCHANGED logs
          ELSE /\ logs' = Append(logs, AccessLogPreSave(d))
               /\ IF req[p].veh # 0
                    THEN Goto(p, [req[p] EXCEPT !.pc = "vehicle", !.id = id,
                                                !.doc = AccessLogPreSave(d)])
                    ELSE Finish(p, Resp(op, "ok", d, Absent))
  /\ UNCHANGED <<impl, vlogs, visits, incCalls>>

AccessCheckinSave(p) == AccessInsert(p, "checkin")

\* vehicleLog.save() of check-in and of the manual entry
AccessVehicleInsert(p, op) ==
  /\ impl = "AccessLog"
  /\ req[p].op = op /\ req[p].pc = "vehicle"
  /\ LET d == req[p].doc
         v == AccessVehicleLog(req[p].veh, req[p].id, d.entryTime,
                               d.exitTime, req[p].vnotes)
     IN /\ vlogs' = Append(vlogs, v)
        /\ Finish(p, Resp(op, "ok", d, Absent))
  /\ UNCHANGED <<impl, logs, visits, incCalls>>

AccessCheckinVehicle(p) == AccessVehicleInsert(p, "checkin")

----------------------------------------------------------------------------
(* Presence ledger on the AccessLog collection: POST /checkout *)

AccessCheckoutFind(p, person, ptype, t, n) ==
  /\ impl = "AccessLog"
  /\ req[p].pc = "idle"
  /\ IF FindOpen(logs, person, ptype) = {}
       THEN Finish(p, Resp("checkout", "noactive", Who(person, ptype), Absent))
       ELSE \E id \in FindOpen(logs, person, ptype) :
              LET e == logs[id]
                  d == [e EXCEPT
                          !.exitTime = t,
                          !.status = "exit",
                          !.notes = IF n # 0 THEN AppendNotes(e.notes, n)
                                    ELSE e.notes]
              IN Goto(p, [Idle EXCEPT !.op = "checkout", !.pc = "save",
                                      !.person = person,
                                      !.personType = ptype,
                                      !.id = id, !.doc = d, !.vnotes = n])
  /\ UNCHANGED <<impl, logs, vlogs, visits, incCalls>>

\* activeLog.save(): validation, then the pre-save hook, then the write of
\* the modified paths.
AccessCheckoutSave(p) ==
  /\ impl = "AccessLog"
  /\ req[p].op = "checkout" /\ req[p].pc = "save"
  /\ LET d == req[p].doc
         id == req[p].id
         s == AccessLogPreSave(d)
     IN IF ~EntryValid(d)
          THEN /\ Finish(p, Resp("checkout", "error", d, Absent))
               /\ UNCHANGED logs
          ELSE /\ logs' = [logs EXCEPT ![id] =
                             [@ EXCEPT !.exitTime = s.exitTime,
                                       !.status = s.status,
                                       !.duration = s.duration,
                                       !.notes = IF req[p].vnotes # 0
                                                   THEN s.notes ELSE @]]
               /\ IF d.vehicle # 0
                    THEN Goto(p, [req[p] EXCEPT !.pc = "vupdate", !.doc = s])
                    ELSE Finish(p, Resp("checkout", "ok", d, Absent))
  /\ UNCHANGED <<impl, vlogs, visits, incCalls>>

\* VehicleLog.findOneAndUpdate({ accessLog: activeLog._id }, ...)
AccessCheckoutVUpdate(p) ==
  /\ impl = "AccessLog"
  /\ req[p].op = "checkout" /\ req[p].pc = "vupdate"
  /\ IF VehicleLogsOf(req[p].id) = {}
       THEN UNCHANGED vlogs
       ELSE \E vid \in VehicleLogsOf(req[p].id) :
              vlogs' = [vlogs EXCEPT ![vid] =
                          [@ EXCEPT !.exit_time = req[p].doc.exitTime,
                                    !.vehicleNotes = req[p].vnotes]]
  /\ Finish(p, Resp("checkout", "ok", req[p].doc, Absent))
  /\ UNCHANGED <<impl, logs, visits, incCalls>>

----------------------------------------------------------------------------
(* Presence ledger on the AccessLog collection: POST /manual *)

\* Validation of the request, then accessLog.save().
AccessManualSave(p, person, ptype, veh, status, t, x, n) ==
  /\ impl = "AccessLog"
  /\ req[p].pc = "idle"
  /\ LET d == [person |-> person, personType |-> ptype,
               status |-> IF status = "" THEN "entry" ELSE status,
               entryTime |-> t, exitTime |-> x, duration |-> 0,
               notes |-> IF n # 0 THEN ManualTagLen + 1 + n
                         ELSE ManualTagLen,
               vehicle |-> veh]
         s == AccessLogPreSave(d)
         id == Len(logs) + 1
     IN IF person = 0
          THEN /\ Finish(p, Resp("manual", "required", d, Absent))
               /\ UNCHANGED logs
        ELSE IF ~EntryValid(d)
          THEN /\ Finish(p, Resp("manual", "error", d, Absent))
               /\ UNCHANGED logs
        ELSE /\ HasRoom
             /\ logs' = Append(logs, s)
             /\ IF veh # 0
                  THEN Goto(p, [Idle EXCEPT !.op = "manual",
                                            !.person = person,
                                            !.personType = ptype,
                                            !.pc = "vehicle", !.id = id,
                                            !.doc = s, !.veh = veh,
                                            !.vnotes = ManualTagLen])
                  ELSE Finish(p, Resp("manual", "ok", d, Absent))
  /\ UNCHANGED <<impl, vlogs, visits, incCalls>>

AccessManualVehicle(p) == AccessVehicleInsert(p, "manual")

----------------------------------------------------------------------------
(* Accounts: registration, login, approval and activation *)

Emails == 1..MaxUsers
Roles == {"admin", "sos"}

UserByEmail(e) == {i \in DOMAIN users : users[i].present /\ users[i].email = e}

AuthResult(op, id, code, kind) ==
  [op |-> op, user |-> id, code |-> code, kind |-> kind]

\* The approval an admin has in flight: idle, or read and not yet saved.
NoApproval == [pc |-> "idle", id |-> 0, activate |-> FALSE]

\* Schema defaults of a new account.
NewUser(email, role) ==
  [email |-> email, role |-> role, isApproved |-> (role = "admin"),
   isActive |-> FALSE, approvedBy |-> 0, approvedAt |-> Absent,
   present |-> TRUE]

Register(email, role) ==
  /\ IF role \notin Roles
       THEN /\ authResp' = AuthResult("register", 0, 400, "role")
            /\ UNCHANGED users
     ELSE IF UserByEmail(email) # {}
       THEN /\ authResp' = AuthResult("register", 0, 400, "exists")
            /\ UNCHANGED users
     ELSE /\ Len(users) < MaxUsers
          /\ users' = Append(users, NewUser(email, role))
          /\ authResp' = AuthResult("register", Len(users) + 1, 201, "ok")
  /\ UNCHANGED <<tokens, areq>>
  /\ UNCHANGED <<ledgerVars, incidentVars, dirVars>>

\* jwt.sign for the account; the token is held by the client from then on.
IssueToken(id) == tokens' = tokens \cup {id}

\* The login with the activation check ahead of the approval check.
LoginActiveFirst(email, pwOk) ==
  /\ IF UserByEmail(email) = {} \/ ~pwOk
       THEN /\ authResp' = AuthResult("login", 0, 400, "invalid")
            /\ UNCHANGED tokens
       ELSE LET id == Min(UserByEmail(email)) IN
              IF ~users[id].isActive
                THEN /\ authResp' = AuthResult("login", id, 403,
                                               "deactivated")
                     /\ UNCHANGED tokens
              ELSE IF ~users[id].isApproved
                THEN /\ authResp' = AuthResult("login", id, 403,
                                               "pending_approval")
                     /\ UNCHANGED tokens
              ELSE /\ authResp' = AuthResult("login", id, 200, "ok")
                   /\ IssueToken(id)
  /\ UNCHANGED <<users, areq>>
  /\ UNCHANGED <<ledgerVars, incidentVars, dirVars>>

\* POST /login of the auth routes: password, then approval, then activation.
Login(email, pwOk) ==
  /\ IF UserByEmail(email) = {} \/ ~pwOk
       THEN /\ authResp' = AuthResult("login", 0, 400, "invalid")
            /\ UNCHANGED tokens
       ELSE LET id == Min(UserByEmail(email)) IN
              IF ~users[id].isApproved
                THEN /\ authResp' = AuthResult("login", id, 403,
                                               "pending_approval")
                     /\ UNCHANGED tokens
              ELSE IF ~users[id].isActive
                THEN /\ authResp' = AuthResult("login", id, 403,
                                               "deactivated")
                     /\ UNCHANGED tokens
              ELSE /\ authResp' = AuthResult("login", id, 200, "ok")
                   /\ IssueToken(id)
  /\ UNCHANGED <<users, areq>>
  /\ UNCHANGED <<ledgerVars, incidentVars, dirVars>>

\* POST /login of the user routes: password only.
UserRoutesLogin(email, pwOk) ==
  /\ IF UserByEmail(email) = {} \/ ~pwOk
       THEN /\ authResp' = AuthResult("userlogin", 0, 400, "invalid")
            /\ UNCHANGED tokens
       ELSE LET id == Min(UserByEmail(email)) IN
              /\ authResp' = AuthResult("userlogin", id, 200, "ok")
              /\ IssueToken(id)
  /\ UNCHANGED <<users, areq>>
  /\ UNCHANGED <<ledgerVars, incidentVars, dirVars>>

\* isAdmin middleware: the token's account exists and has role admin.
IsAdminCaller(c) ==
  /\ c \in tokens
  /\ c \in DOMAIN users
  /\ users[c].present
  /\ users[c].role = "admin"

\* The approval without its "already approved" return.
ApproveUserNoGuard(c, id, activate) ==
  /\ IsAdminCaller(c)
  /\ areq[c].pc = "idle"
  /\ IF id \notin DOMAIN users \/ ~users[id].present
       THEN /\ authResp' = AuthResult("approve", id, 404, "notfound")
            /\ UNCHANGED areq
     ELSE IF users[id].role # "sos"
       THEN /\ authResp' = AuthResult("approve", id, 400, "noteligible")
            /\ UNCHANGED areq
     ELSE /\ areq' = [areq EXCEPT ![c] = [pc |-> "save", id |-> id,
                                          activate |-> activate]]
          /\ UNCHANGED authResp
  /\ UNCHANGED <<users, tokens>>
  /\ UNCHANGED <<ledgerVars, incidentVars, dirVars>>

\* PATCH /approve-user/:userId up to its save; activate tells the two
\* variants apart. The account is read here and written by the save below.
ApproveUser(c, id, activate) ==
  /\ IsAdminCaller(c)
  /\ areq[c].pc = "idle"
  /\ IF id \notin DOMAIN users \/ ~users[id].present
       THEN /\ authResp' = AuthResult("approve", id, 404, "notfound")
            /\ UNCHANGED areq
     ELSE IF users[id].role # "sos"
       THEN /\ authResp' = AuthResult("approve", id, 400, "noteligible")
            /\ UNCHANGED areq
     ELSE IF users[id].isApproved
       THEN /\ authResp' = AuthResult("approve", id, 400, "already")
            /\ UNCHANGED areq
     ELSE /\ areq' = [areq EXCEPT ![c] = [pc |-> "save", id |-> id,
                                          activate |-> activate]]
          /\ UNCHANGED authResp
  /\ UNCHANGED <<users, tokens>>
  /\ UNCHANGED <<ledgerVars, incidentVars, dirVars>>

ApproveUserFirst(c, id) == ApproveUser(c, id, FALSE)

ApproveUserSecond(c, id) == ApproveUser(c, id, TRUE)

\* user.save() of the approval: writes the paths the handler has set.
ApproveUserSave(c, t) ==
  /\ areq[c].pc = "save"
  /\ LET id == areq[c].id IN
       /\ users' = [users EXCEPT ![id] =
                      [@ EXCEPT !.isApproved = TRUE,
                                !.isActive = IF areq[c].activate THEN TRUE
                                             ELSE @,
                                !.approvedBy = c,
                                !.approvedAt = t]]
       /\ authResp' = AuthResult("approve", id, 200, "ok")
  /\ areq' = [areq EXCEPT ![c] = NoApproval]
  /\ UNCHANGED tokens
  /\ UNCHANGED <<ledgerVars, incidentVars, dirVars>>

\* PATCH /bulk-approve: one updateMany over the pending sos accounts among
\* the given ids.
BulkApprove(c, ids, t) ==
  /\ IsAdminCaller(c)
  /\ IF ids = {}
       THEN /\ authResp' = AuthResult("bulk", 0, 400, "required")
            /\ UNCHANGED users
       ELSE /\ users' = [i \in DOMAIN users |->
                           IF /\ i \in ids
                              /\ users[i].present
                              /\ users[i].role = "sos"
                              /\ ~users[i].isApproved
                             THEN [users[i] EXCEPT !.isApproved = TRUE,
                                                   !.approvedBy = c,
                                                   !.approvedAt = t]
                             ELSE users[i]]
            /\ authResp' = AuthResult("bulk", 0, 200, "ok")
  /\ UNCHANGED <<tokens, areq>>
  /\ UNCHANGED <<ledgerVars, incidentVars, dirVars>>

\* POST /create-user: the new account is active and carries the creating
\* admin as approvedBy, whatever its role and its isApproved.
CreateUser(c, email, role, approved, t) ==
  /\ IsAdminCaller(c)
  /\ IF UserByEmail(email) # {}
       THEN /\ authResp' = AuthResult("create", 0, 400, "exists")
            /\ UNCHANGED users
     ELSE IF role \notin Roles
       THEN /\ authResp' = AuthResult("create", 0, 400, "validation")
            /\ UNCHANGED users
     ELSE /\ Len(users) < MaxUsers
          /\ users' = Append(users,
                             [NewUser(email, role) EXCEPT
                                !.isApproved = approved,
                                !.isActive = TRUE,
                                !.approvedBy = c,
                                !.approvedAt = t])
          /\ authResp' = AuthResult("create", Len(users) + 1, 201, "ok")
  /\ UNCHANGED <<tokens, areq>>
  /\ UNCHANGED <<ledgerVars, incidentVars, dirVars>>

\* PATCH /toggle-status/:userId
ToggleStatus(c, id) ==
  /\ IsAdminCaller(c)
  /\ IF id = c
       THEN /\ authResp' = AuthResult("toggle", id, 400, "self")
            /\ UNCHANGED users
     ELSE IF id \notin DOMAIN users \/ ~users[id].present
       THEN /\ authResp' = AuthResult("toggle", id, 404, "notfound")
            /\ UNCHANGED users
     ELSE /\ users' = [users EXCEPT ![id].isActive = ~@]
          /\ authResp' = AuthResult("toggle", id, 200, "ok")
  /\ UNCHANGED <<tokens, areq>>
  /\ UNCHANGED <<ledgerVars, incidentVars, dirVars>>

\* DELETE /reject-user/:userId
RejectUser(c, id) ==
  /\ IsAdminCaller(c)
  /\ IF id \notin DOMAIN users \/ ~users[id].present
       THEN /\ authResp' = AuthResult("reject", id, 404, "notfound")
            /\ UNCHANGED users
     ELSE IF users[id].isApproved
       THEN /\ authResp' = AuthResult("reject", id, 400, "approved")
            /\ UNCHANGED users
     ELSE /\ users' = [users EXCEPT ![id].present = FALSE]
          /\ authResp' = AuthResult("reject", id, 200, "ok")
  /\ UNCHANGED <<tokens, areq>>
  /\ UNCHANGED <<ledgerVars, incidentVars, dirVars>>

\* DELETE /delete-user/:userId
DeleteUser(c, id) ==
  /\ IsAdminCaller(c)
  /\ IF id = c
       THEN /\ authResp' = AuthResult("delete", id, 400, "self")
            /\ UNCHANGED users
     ELSE IF id \notin DOMAIN users \/ ~users[id].present
       THEN /\ authResp' = AuthResult("delete", id, 404, "notfound")
            /\ UNCHANGED users
     ELSE IF users[id].role = "admin"
       THEN /\ authResp' = AuthResult("delete", id, 400, "admin")
            /\ UNCHANGED users
     ELSE /\ users' = [users EXCEPT ![id].present = FALSE]
          /\ authResp' = AuthResult("delete", id, 200, "ok")
  /\ UNCHANGED <<tokens, areq>>
  /\ UNCHANGED <<ledgerVars, incidentVars, dirVars>>

\* verifyTokenAndUser: the token verifies and its account is stored.
verifyTokenAndUser(c) ==
  /\ c \in tokens
  /\ c \in DOMAIN users
  /\ users[c].present

Gates == {"verifyToken", "isAdmin", "isSOS"}

\* A request with the token of account c to a route behind one of the three
\* middlewares: 401 without a valid token, 403 for the wrong role, else
\* next().
GatedRequest(c, gate) ==
  /\ authResp' =
       IF ~verifyTokenAndUser(c)
         THEN AuthResult(gate, c, 401, "invalid")
       ELSE IF gate = "isAdmin" /\ users[c].role # "admin"
         THEN AuthResult(gate, c, 403, "role")
       ELSE IF gate = "isSOS" /\ users[c].role # "sos"
         THEN AuthResult(gate, c, 403, "role")
       ELSE AuthResult(gate, c, 200, "next")
  /\ UNCHANGED <<users, tokens, areq>>
  /\ UNCHANGED <<ledgerVars, incidentVars, dirVars>>

----------------------------------------------------------------------------
(* Incidents: report, status update and resolve *)

\* The admin whose token the isAdmin middleware has accepted.
AdminIds == {1}
IncidentIds == 1..(MaxIncidents + 1)
StatusTokens == {"pending", "approved", "rejected", "resolved", "closed"}

NewIncident ==
  [status |-> "pending", resolvedAt |-> Absent, approvedBy |-> 0,
   approvedAt |-> Absent]

IncidentResult(op, id, kind) == [op |-> op, id |-> id, kind |-> kind]

\* POST /report
ReportIncident(valid) ==
  /\ IF ~valid
       THEN /\ incidentResp' = IncidentResult("report", 0, "validation")
            /\ UNCHANGED incidents
       ELSE /\ Len(incidents) < MaxIncidents
            /\ incidents' = Append(incidents, NewIncident)
            /\ incidentResp' = IncidentResult("report", Len(incidents) + 1,
                                              "ok")
  /\ UNCHANGED ireq

\* updateData of PATCH /admin/:id/status
UpdateData(d, status, c, t) ==
  [d EXCEPT !.status = status,
            !.approvedBy = IF status \in {"approved", "rejected"} THEN c
                           ELSE @,
            !.approvedAt = IF status \in {"approved", "rejected"} THEN t
                           ELSE @,
            !.resolvedAt = IF status = "resolved" THEN t ELSE @]

\* PATCH /admin/:id/status: any of the four statuses, from any status.
UpdateIncidentStatus(c, id, status, t) ==
  /\ IF status \notin {"pending", "approved", "rejected", "resolved"}
       THEN /\ incidentResp' = IncidentResult("status", id, "invalid")
            /\ UNCHANGED incidents
     ELSE IF id \notin DOMAIN incidents
       THEN /\ incidentResp' = IncidentResult("status", id, "notfound")
            /\ UNCHANGED incidents
     ELSE /\ incidents' = [incidents EXCEPT
                             ![id] = UpdateData(@, status, c, t)]
          /\ incidentResp' = IncidentResult("status", id, "ok")
  /\ UNCHANGED ireq

\* PATCH /admin/:id/resolve up to its findByIdAndUpdate.
ResolveIncident(c, id) ==
  /\ ireq[c] = 0
  /\ IF id \notin DOMAIN incidents
       THEN /\ incidentResp' = IncidentResult("resolve", id, "notfound")
            /\ UNCHANGED ireq
     ELSE IF incidents[id].status = "resolved"
       THEN /\ incidentResp' = IncidentResult("resolve", id, "already")
            /\ UNCHANGED ireq
     ELSE /\ ireq' = [ireq EXCEPT ![c] = id]
          /\ UNCHANGED incidentResp
  /\ UNCHANGED incidents

\* findByIdAndUpdate(id, { status: "resolved", resolvedAt: new Date() })
ResolveIncidentUpdate(c, t) ==
  /\ ireq[c] # 0
  /\ incidents' = [incidents EXCEPT ![ireq[c]].status = "resolved",
                                    ![ireq[c]].resolvedAt = t]
  /\ incidentResp' = IncidentResult("resolve", ireq[c], "ok")
  /\ ireq' = [ireq EXCEPT ![c] = 0]

----------------------------------------------------------------------------
(* Directory: workers, suppliers, Leoni personnel and their vehicles.      *)
(* The requests of this part are served one after the other, each handler  *)
(* to its response. Names and identifiers are strings of letters; licence  *)
(* plates are numbered, in the upper case the schema stores them in.       *)

PeopleIds == 1..MaxPeople
VehicleDocIds == 1..MaxVehicles
Plates == {1, 2}
Names == {<<"a", "b">>, <<"B">>}
Idents == {<<"c">>, <<"d">>}
SearchTexts == {<<"b">>, <<"C">>, <<>>}
OwnerTypeInputs == PersonTypes \cup {"Visitor"}

\* A deleted document.
Gone == [kind |-> "", name |-> <<>>, ident |-> <<>>, vehicles |-> {}]

\* A document of one of the three collections; ident is its cin, id_sup or
\* matricule, vehicles the vehicles array of a worker.
Person(kind, name, ident) ==
  [kind |-> kind, name |-> name, ident |-> ident, vehicles |-> {}]

NoVehicle == [plate |-> 0, owner |-> 0, ownerType |-> ""]

DirResult(op, id, kind, text) ==
  [op |-> op, id |-> id, kind |-> kind, text |-> text]

\* Model.findById(id) of the collection of that kind: ObjectIds are unique
\* across collections, so the three collections share one id space.
FindPerson(kind, id) == id \in DOMAIN people /\ people[id].kind = kind

\* findOne for another document of the collection with this identifier.
SameIdent(kind, ident, except) ==
  {i \in DOMAIN people \ {except} :
     people[i].kind = kind /\ people[i].ident = ident}

PlateTaken(plate, except) ==
  {v \in DOMAIN vehicles \ {except} : vehicles[v].plate = plate}

\* $options: 'i'
Lower(c) == IF c = "A" THEN "a" ELSE IF c = "B" THEN "b"
            ELSE IF c = "C" THEN "c" ELSE IF c = "D" THEN "d" ELSE c

LowerSeq(s) == [i \in DOMAIN s |-> Lower(s[i])]

\* { $regex: text, $options: 'i' } on a field, for a text of letters.
Matches(text, field) ==
  \E i \in 1..(Len(field) - Len(text) + 1) :
    SubSeq(LowerSeq(field), i, i + Len(text) - 1) = LowerSeq(text)

\* POST /api/workers
CreateWorker(name, ident) ==
  /\ IF SameIdent("Worker", ident, 0) # {}
       THEN /\ dirResp' = DirResult("createWorker", 0, "exists", <<>>)
            /\ UNCHANGED people
       ELSE /\ Len(people) < MaxPeople
            /\ people' = Append(people, Person("Worker", name, ident))
            /\ dirResp' = DirResult("createWorker", Len(people) + 1, "ok",
                                    <<>>)
  /\ UNCHANGED <<vehicles, found>>
  /\ UNCHANGED <<ledgerVars, authVars, incidentVars>>

\* PUT /api/workers/:id
UpdateWorker(id, name, ident) ==
  /\ IF SameIdent("Worker", ident, id) # {}
       THEN /\ dirResp' = DirResult("updateWorker", id, "exists", <<>>)
            /\ UNCHANGED people
     ELSE IF ~FindPerson("Worker", id)
       THEN /\ dirResp' = DirResult("updateWorker", id, "notfound", <<>>)
            /\ UNCHANGED people
     ELSE /\ people' = [people EXCEPT ![id].name = name,
                                      ![id].ident = ident]
          /\ dirResp' = DirResult("updateWorker", id, "ok", <<>>)
  /\ UNCHANGED <<vehicles, found>>
  /\ UNCHANGED <<ledgerVars, authVars, incidentVars>>

\* DELETE /api/workers/:id: Vehicle.deleteMany({ owner: id }), then the
\* worker.
DeleteWorker(id) ==
  /\ IF ~FindPerson("Worker", id)
       THEN /\ dirResp' = DirResult("deleteWorker", id, "notfound", <<>>)
            /\ UNCHANGED <<people, vehicles>>
       ELSE /\ vehicles' = [v \in DOMAIN vehicles |->
                              IF vehicles[v].owner = id THEN NoVehicle
                              ELSE vehicles[v]]
            /\ people' = [people EXCEPT ![id] = Gone]
            /\ dirResp' = DirResult("deleteWorker", id, "ok", <<>>)
  /\ UNCHANGED found
  /\ UNCHANGED <<ledgerVars, authVars, incidentVars>>

\* POST /api/suppliers: the document is built from id_sup, comp_affil and
\* num_vst only, so that its save fails on the required paths of the schema
\* (name, email, phonenumber, cin, companyInfo).
CreateSupplier(ident) ==
  /\ IF SameIdent("Supplier", ident, 0) # {}
       THEN dirResp' = DirResult("createSupplier", 0, "exists", <<>>)
       ELSE dirResp' = DirResult("createSupplier", 0, "error", <<>>)
  /\ UNCHANGED <<people, vehicles, found>>
  /\ UNCHANGED <<ledgerVars, authVars, incidentVars>>

\* PUT /api/suppliers/:id
UpdateSupplier(id, ident) ==
  /\ IF SameIdent("Supplier", ident, id) # {}
       THEN /\ dirResp' = DirResult("updateSupplier", id, "exists", <<>>)
            /\ UNCHANGED people
     ELSE IF ~FindPerson("Supplier", id)
       THEN /\ dirResp' = DirResult("updateSupplier", id, "notfound", <<>>)
            /\ UNCHANGED people
     ELSE /\ people' = [people EXCEPT ![id].ident = ident]
          /\ dirResp' = DirResult("updateSupplier", id, "ok", <<>>)
  /\ UNCHANGED <<vehicles, found>>
  /\ UNCHANGED <<ledgerVars, authVars, incidentVars>>

\* DELETE /api/suppliers/:id
DeleteSupplier(id) ==
  /\ IF ~FindPerson("Supplier", id)
       THEN /\ dirResp' = DirResult("deleteSupplier", id, "notfound", <<>>)
            /\ UNCHANGED people
       ELSE /\ people' = [people EXCEPT ![id] = Gone]
            /\ dirResp' = DirResult("deleteSupplier", id, "ok", <<>>)
  /\ UNCHANGED <<vehicles, found>>
  /\ UNCHANGED <<ledgerVars, authVars, incidentVars>>

\* POST /api/leoni-personnel; plate 0 for a body without vehicle.
CreatePersonnel(name, ident, plate) ==
  /\ IF SameIdent("LeoniPersonnel", ident, 0) # {}
       THEN /\ dirResp' = DirResult("createPersonnel", 0, "exists", <<>>)
            /\ UNCHANGED <<people, vehicles>>
       ELSE LET id == Len(people) + 1 IN
            /\ Len(people) < MaxPeople
            /\ people' = Append(people, Person("LeoniPersonnel", name, ident))
            /\ IF plate = 0
                 THEN /\ dirResp' = DirResult("createPersonnel", id, "ok",
                                              <<>>)
                      /\ UNCHANGED vehicles
               ELSE IF PlateTaken(plate, 0) # {}
                 THEN /\ dirResp' = DirResult("createPersonnel", id, "plate",
                                              <<>>)
                      /\ UNCHANGED vehicles
               ELSE /\ Len(vehicles) < MaxVehicles
                    /\ vehicles' = Append(vehicles,
                                          [plate |-> plate, owner |-> id,
                                           ownerType |-> "LeoniPersonnel"])
                    /\ dirResp' = DirResult("createPersonnel", id, "ok", <<>>)
  /\ UNCHANGED found
  /\ UNCHANGED <<ledgerVars, authVars, incidentVars>>

\* PUT /api/leoni-personnel/:id: the personnel is saved, then its vehicle is
\* updated or inserted by findOneAndUpdate with upsert.
UpdatePersonnel(id, name, ident, plate) ==
  /\ IF ~FindPerson("LeoniPersonnel", id)
       THEN /\ dirResp' = DirResult("updatePersonnel", id, "notfound", <<>>)
            /\ UNCHANGED <<people, vehicles>>
     ELSE IF SameIdent("LeoniPersonnel", ident, id) # {}
       THEN /\ dirResp' = DirResult("updatePersonnel", id, "exists", <<>>)
            /\ UNCHANGED <<people, vehicles>>
     ELSE LET own == {v \in DOMAIN vehicles :
                        /\ vehicles[v].owner = id
                        /\ vehicles[v].ownerType = "LeoniPersonnel"}
              others == {v \in DOMAIN vehicles \ own :
                           vehicles[v].plate = plate}
          IN
          /\ people' = [people EXCEPT ![id].name = name, ![id].ident = ident]
          /\ IF plate = 0
               THEN /\ dirResp' = DirResult("updatePersonnel", id, "ok", <<>>)
                    /\ UNCHANGED vehicles
             ELSE IF others # {}
               THEN /\ dirResp' = DirResult("updatePersonnel", id, "plate",
                                            <<>>)
                    /\ UNCHANGED vehicles
             ELSE IF own = {}
               THEN /\ Len(vehicles) < MaxVehicles
                    /\ vehicles' = Append(vehicles,
                                          [plate |-> plate, owner |-> id,
                                           ownerType |-> "LeoniPersonnel"])
                    /\ dirResp' = DirResult("updatePersonnel", id, "ok", <<>>)
             ELSE IF PlateTaken(plate, Min(own)) # {}
               THEN /\ dirResp' = DirResult("updatePersonnel", id, "error",
                                            <<>>)
                    /\ UNCHANGED vehicles
             ELSE /\ vehicles' = [vehicles EXCEPT ![Min(own)].plate = plate]
                  /\ dirResp' = DirResult("updatePersonnel", id, "ok", <<>>)
  /\ UNCHANGED found
  /\ UNCHANGED <<ledgerVars, authVars, incidentVars>>

\* DELETE /api/leoni-personnel/:id
DeletePersonnel(id) ==
  /\ IF ~FindPerson("LeoniPersonnel", id)
       THEN /\ dirResp' = DirResult("deletePersonnel", id, "notfound", <<>>)
            /\ UNCHANGED <<people, vehicles>>
       ELSE /\ vehicles' = [v \in DOMAIN vehicles |->
                              IF /\ vehicles[v].owner = id
                                 /\ vehicles[v].ownerType = "LeoniPersonnel"
                                THEN NoVehicle
                                ELSE vehicles[v]]
            /\ people' = [people EXCEPT ![id] = Gone]
            /\ dirResp' = DirResult("deletePersonnel", id, "ok", <<>>)
  /\ UNCHANGED found
  /\ UNCHANGED <<ledgerVars, authVars, incidentVars>>

\* POST /api/vehicles
CreateVehicle(plate, owner, ownerType) ==
  /\ IF ownerType \notin PersonTypes
       THEN /\ dirResp' = DirResult("createVehicle", 0, "type", <<>>)
            /\ UNCHANGED <<people, vehicles>>
     ELSE IF PlateTaken(plate, 0) # {}
       THEN /\ dirResp' = DirResult("createVehicle", 0, "plate", <<>>)
            /\ UNCHANGED <<people, vehicles>>
     ELSE IF ~FindPerson(ownerType, owner)
       THEN /\ dirResp' = DirResult("createVehicle", 0, "owner", <<>>)
            /\ UNCHANGED <<people, vehicles>>
     ELSE LET id == Len(vehicles) + 1 IN
          /\ Len(vehicles) < MaxVehicles
          /\ vehicles' = Append(vehicles, [plate |-> plate, owner |-> owner,
                                           ownerType |-> ownerType])
          /\ people' = IF ownerType = "Worker"
                         THEN [people EXCEPT ![owner].vehicles = @ \cup {id}]
                         ELSE people
          /\ dirResp' = DirResult("createVehicle", id, "ok", <<>>)
  /\ UNCHANGED found
  /\ UNCHANGED <<ledgerVars, authVars, incidentVars>>

\* PUT /api/vehicles/:id
UpdateVehicle(id, plate, owner, ownerType) ==
  /\ IF id \notin DOMAIN vehicles \/ vehicles[id] = NoVehicle
       THEN /\ dirResp' = DirResult("updateVehicle", id, "notfound", <<>>)
            /\ UNCHANGED <<people, vehicles>>
     ELSE IF ownerType \notin PersonTypes
       THEN /\ dirResp' = DirResult("updateVehicle", id, "type", <<>>)
            /\ UNCHANGED <<people, vehicles>>
     ELSE IF PlateTaken(plate, id) # {}
       THEN /\ dirResp' = DirResult("updateVehicle", id, "plate", <<>>)
            /\ UNCHANGED <<people, vehicles>>
     ELSE IF ~FindPerson(ownerType, owner)
       THEN /\ dirResp' = DirResult("updateVehicle", id, "owner", <<>>)
            /\ UNCHANGED <<people, vehicles>>
     ELSE LET old == vehicles[id]
              pulled == IF /\ old.ownerType = "Worker"
                           /\ FindPerson("Worker", old.owner)
                          THEN [people EXCEPT
                                  ![old.owner].vehicles = @ \ {id}]
                          ELSE people
          IN
          /\ people' = IF ownerType = "Worker"
                         THEN [pulled EXCEPT ![owner].vehicles = @ \cup {id}]
                         ELSE pulled
          /\ vehicles' = [vehicles EXCEPT ![id] =
                            [plate |-> plate, owner |-> owner,
                             ownerType |-> ownerType]]
          /\ dirResp' = DirResult("updateVehicle", id, "ok", <<>>)
  /\ UNCHANGED found
  /\ UNCHANGED <<ledgerVars, authVars, incidentVars>>

\* DELETE /api/vehicles/:id
DeleteVehicle(id) ==
  /\ IF id \notin DOMAIN vehicles \/ vehicles[id] = NoVehicle
       THEN /\ dirResp' = DirResult("deleteVehicle", id, "notfound", <<>>)
            /\ UNCHANGED <<people, vehicles>>
       ELSE LET old == vehicles[id] IN
            /\ people' = IF /\ old.ownerType = "Worker"
                            /\ FindPerson("Worker", old.owner)
                           THEN [people EXCEPT
                                   ![old.owner].vehicles = @ \ {id}]
                           ELSE people
            /\ vehicles' = [vehicles EXCEPT ![id] = NoVehicle]
            /\ dirResp' = DirResult("deleteVehicle", id, "ok", <<>>)
  /\ UNCHANGED found
  /\ UNCHANGED <<ledgerVars, authVars, incidentVars>>

\* The collections whose matching documents the search of GET / collects:
\* suppliers and Leoni personnel in the Log router, suppliers in the
\* AccessLog router.
SearchedKinds == IF impl = "Log" THEN {"Supplier", "LeoniPersonnel"}
                 ELSE {"Supplier"}

\* GET /?search=text: the ids of the matching documents, then the entries
\* whose person is one of them.
Search(text) ==
  /\ LET ids == {i \in DOMAIN people :
                   /\ people[i].kind \in SearchedKinds
                   /\ \/ Matches(text, people[i].name)
                      \/ Matches(text, people[i].ident)}
     IN found' = IF text = <<>> THEN DOMAIN logs
                 ELSE {l \in DOMAIN logs : logs[l].person \in ids}
  /\ dirResp' = DirResult("search", 0, "ok", text)
  /\ UNCHANGED <<people, vehicles>>
  /\ UNCHANGED <<ledgerVars, authVars, incidentVars>>

----------------------------------------------------------------------------
(* Specifications *)

Init ==
  /\ impl \in {"Log", "AccessLog"}
  /\ logs = <<>>
  /\ vlogs = <<>>
  /\ visits = <<>>
  /\ req = [p \in Procs |-> Idle]
  /\ lastResp = NoResp
  /\ incCalls = [k \in VisitKeys |-> 0]
  /\ active = <<>>
  /\ lastOp = [k \in Persons |-> "none"]
  /\ users = <<>>
  /\ tokens = {}
  /\ authResp = AuthResult("none", 0, 0, "")
  /\ areq = [c \in Emails |-> NoApproval]
  /\ incidents = <<>>
  /\ ireq = [c \in AdminIds |-> 0]
  /\ incidentResp = IncidentResult("none", 0, "")
  /\ people = <<>>
  /\ vehicles = <<>>
  /\ found = {}
  /\ dirResp = DirResult("none", 0, "", <<>>)

PersonInputs == PersonIds \cup {0}
TypeInputs == {"Supplier", "Worker", "Visitor"}
VehicleInputs == VehicleIds \cup {0}
ExitInputs == Times \cup {Absent}
\* An entry date between the two dates a check-out may carry.
EntryInputs == {FirstTick + 1}
RaceTypes == {"Supplier"}
RaceExits == {FirstTick + TickStep}
ApprovalDates == {FirstTick}

\* Check-in of both routers, with the request bodies drawn from the given
\* sets of person ids, person types, vehicle ids, dates and notes.
CheckinStep(p, PI, TI, VI, TM, NI) ==
  \/ \E person \in PI, ptype \in TI, veh \in VI, t \in TM, n \in NI :
       LogCheckinFind(p, person, ptype, veh, t, n)
  \/ LogCheckinSave(p)
  \/ LogCheckinVisit(p)
  \/ \E person \in PI, ptype \in TI, veh \in VI, t \in TM, n \in NI :
       AccessCheckinFind(p, person, ptype, veh, t, n)
  \/ AccessCheckinSave(p)

\* Check-out of both routers.
CheckoutStep(p, PI, TI, TM, NI) ==
  \/ \E person \in PI, ptype \in TI, t \in TM, n \in NI :
       LogCheckoutFind(p, person, ptype, t, n)
  \/ LogCheckoutSave(p)
  \/ LogCheckoutVFind(p)
  \/ \E person \in PI, ptype \in TI, t \in TM, n \in NI :
       AccessCheckoutFind(p, person, ptype, t, n)
  \/ AccessCheckoutSave(p)

\* The steps that write the vehicle log.
VehicleStep(p) ==
  \/ LogCheckinVehicle(p)
  \/ LogCheckoutVSave(p)
  \/ AccessCheckinVehicle(p)
  \/ AccessCheckoutVUpdate(p)

\* Requests are served one at a time; each is still split at its awaits.
Next ==
  /\ \/ CheckinStep(1, PersonInputs, TypeInputs, VehicleInputs, EntryInputs,
                    NoteLens)
     \/ CheckoutStep(1, PersonInputs, TypeInputs, Times, NoteLens)
     \/ VehicleStep(1)
  /\ UNCHANGED authVars
  /\ UNCHANGED incidentVars
  /\ UNCHANGED dirVars

Spec == Init /\ [][Next]_vars

\* Requests of persons without vehicle interleave at their awaits.
RaceNext ==
  /\ \E p \in Procs :
       \/ CheckinStep(p, PersonIds, RaceTypes, {0}, Times, {0})
       \/ CheckoutStep(p, PersonIds, RaceTypes, RaceExits, {0})
  /\ UNCHANGED authVars
  /\ UNCHANGED incidentVars
  /\ UNCHANGED dirVars

RaceSpec == Init /\ [][RaceNext]_vars

\* Check-outs of one person interleave at their awaits and carry different
\* exit dates.
CloseRaceNext ==
  /\ \E p \in Procs :
       \/ CheckinStep(p, PersonIds, RaceTypes, {0}, EntryInputs, {0})
       \/ CheckoutStep(p, PersonIds, RaceTypes, Times, {0})
  /\ UNCHANGED authVars
  /\ UNCHANGED incidentVars
  /\ UNCHANGED dirVars

CloseRaceSpec == Init /\ [][CloseRaceNext]_vars

FaultTypes == {"Supplier", "Worker"}

\* Check-ins with two entry dates and check-outs, served one at a time, and
\* the list of active entries asked for between them.
ListNext ==
  /\ \/ CheckinStep(1, PersonIds, FaultTypes, {0}, Times, {0})
     \/ CheckoutStep(1, PersonIds, FaultTypes, RaceExits, {0})
     \/ /\ \A p \in Procs : req[p].pc = "idle"
        /\ GetActive
  /\ UNCHANGED authVars
  /\ UNCHANGED incidentVars
  /\ UNCHANGED dirVars

ListSpec == Init /\ [][ListNext]_vars

\* Check-ins, check-outs and manual entries, served one at a time.
ManualNext ==
  /\ \/ CheckinStep(1, PersonIds, FaultTypes, VehicleInputs, EntryInputs,
                    NoteLens)
     \/ CheckoutStep(1, PersonIds, FaultTypes, RaceExits, NoteLens)
     \/ VehicleStep(1)
     \/ \E person \in PersonInputs, ptype \in FaultTypes,
           veh \in VehicleInputs, status \in StatusInputs,
           t \in EntryInputs, x \in RaceExits \cup {Absent},
           n \in ManualNoteLens :
          AccessManualSave(1, person, ptype, veh, status, t, x, n)
     \/ AccessManualVehicle(1)
  /\ UNCHANGED authVars
  /\ UNCHANGED incidentVars
  /\ UNCHANGED dirVars

ManualSpec == Init /\ [][ManualNext]_vars

\* Notes of a length that two of them, joined, pass the bound of the schema.
LongNoteLens == {0, 300}

\* Check-ins and check-outs with notes, served one at a time.
NotesNext ==
  /\ \/ CheckinStep(1, PersonIds, RaceTypes, {0}, EntryInputs, LongNoteLens)
     \/ CheckoutStep(1, PersonIds, RaceTypes, RaceExits, LongNoteLens)
  /\ UNCHANGED authVars
  /\ UNCHANGED incidentVars
  /\ UNCHANGED dirVars

NotesSpec == Init /\ [][NotesNext]_vars

\* Requests served one at a time, with store failures in the side effects.
FaultNext ==
  /\ \/ CheckinStep(1, PersonIds, FaultTypes, VehicleInputs, EntryInputs,
                    NoteLens)
     \/ CheckoutStep(1, PersonIds, FaultTypes, Times, NoteLens)
     \/ VehicleStep(1)
     \/ LogCheckinVisitFail(1)
     \/ LogCheckinVehicleFail(1)
     \/ LogCheckoutVSaveFail(1)
  /\ UNCHANGED authVars
  /\ UNCHANGED incidentVars
  /\ UNCHANGED dirVars

FaultSpec == Init /\ [][FaultNext]_vars

\* The visit counter driven directly, one call after the other.
VisitNext ==
  /\ \E s \in SupplierIds, t \in VisitDates : IncrementVisitCall(s, t)
  /\ UNCHANGED authVars
  /\ UNCHANGED incidentVars
  /\ UNCHANGED dirVars

VisitSpec == Init /\ [][VisitNext]_vars

\* Emails a registration may carry: one in use or the next unused one (which
\* email a new account takes makes no difference to any route).
KnownEmails == {e \in Emails : e <= Len(users) + 1}

AuthNext ==
  \/ \E e \in KnownEmails, r \in Roles \cup {"guest"} : Register(e, r)
  \/ \E e \in Emails, ok \in BOOLEAN : Login(e, ok)
  \/ \E e \in Emails, ok \in BOOLEAN : UserRoutesLogin(e, ok)
  \/ \E c \in Emails, id \in Emails : ApproveUserFirst(c, id)
  \/ \E c \in Emails, id \in Emails : ApproveUserSecond(c, id)
  \/ \E c \in Emails, t \in ApprovalDates : ApproveUserSave(c, t)
  \/ \E c \in Emails, id \in Emails : ToggleStatus(c, id)

AuthSpec == Init /\ [][AuthNext]_vars

\* The admin routes that write approvedBy and approvedAt, with the logins
\* and registrations that lead to them.
AdminNext ==
  \/ \E e \in KnownEmails, r \in Roles : Register(e, r)
  \/ \E e \in Emails : UserRoutesLogin(e, TRUE)
  \/ \E c \in Emails, id \in Emails : ApproveUserFirst(c, id)
  \/ \E c \in Emails, t \in ApprovalDates : ApproveUserSave(c, t)
  \/ \E c \in Emails, ids \in SUBSET Emails, t \in ApprovalDates :
       BulkApprove(c, ids, t)
  \/ \E c \in Emails, e \in KnownEmails, r \in Roles \cup {"guest"},
        a \in BOOLEAN, t \in ApprovalDates : CreateUser(c, e, r, a, t)

AdminSpec == Init /\ [][AdminNext]_vars

\* The accounts with their tokens: logins, the admin routes that create,
\* deactivate and remove accounts, and requests through the middlewares.
AccountNext ==
  \/ \E e \in KnownEmails, r \in Roles : Register(e, r)
  \/ \E e \in Emails : Login(e, TRUE)
  \/ \E e \in Emails : UserRoutesLogin(e, TRUE)
  \/ \E c \in Emails, e \in KnownEmails, r \in Roles, a \in BOOLEAN,
        t \in ApprovalDates : CreateUser(c, e, r, a, t)
  \/ \E c \in Emails, id \in Emails : ToggleStatus(c, id)
  \/ \E c \in Emails, id \in Emails : RejectUser(c, id)
  \/ \E c \in Emails, id \in Emails : DeleteUser(c, id)
  \/ \E c \in Emails, g \in Gates : GatedRequest(c, g)

AccountSpec == Init /\ [][AccountNext]_vars

\* Registration, the login of the auth routes and the admin routes, each
\* admin route behind isAdmin: a caller the middleware turns down gets its
\* 401 or 403 and the handler does not run.
BootstrapNext ==
  \/ \E e \in KnownEmails, r \in Roles : Register(e, r)
  \/ \E e \in Emails, ok \in BOOLEAN : Login(e, ok)
  \/ \E c \in Emails, id \in Emails :
       IF IsAdminCaller(c) THEN ApproveUserSecond(c, id)
       ELSE GatedRequest(c, "isAdmin")
  \/ \E c \in Emails, t \in ApprovalDates :
       IF IsAdminCaller(c) THEN ApproveUserSave(c, t)
       ELSE GatedRequest(c, "isAdmin")
  \/ \E c \in Emails, ids \in SUBSET Emails, t \in ApprovalDates :
       IF IsAdminCaller(c) THEN BulkApprove(c, ids, t)
       ELSE GatedRequest(c, "isAdmin")
  \/ \E c \in Emails, e \in KnownEmails, r \in Roles, a \in BOOLEAN,
        t \in ApprovalDates :
       IF IsAdminCaller(c) THEN CreateUser(c, e, r, a, t)
       ELSE GatedRequest(c, "isAdmin")
  \/ \E c \in Emails, id \in Emails :
       IF IsAdminCaller(c) THEN ToggleStatus(c, id)
       ELSE GatedRequest(c, "isAdmin")
  \/ \E c \in Emails, id \in Emails :
       IF IsAdminCaller(c) THEN RejectUser(c, id)
       ELSE GatedRequest(c, "isAdmin")
  \/ \E c \in Emails, id \in Emails :
       IF IsAdminCaller(c) THEN DeleteUser(c, id)
       ELSE GatedRequest(c, "isAdmin")
  \/ \E c \in Emails, g \in Gates : GatedRequest(c, g)

\* Requests keep coming: some request is served as long as one can be.
BootstrapSpec ==
  Init /\ [][BootstrapNext]_vars /\ WF_vars(BootstrapNext)

\* The incident routes of both routers.
IncidentNext ==
  /\ \/ \E valid \in BOOLEAN : ReportIncident(valid)
     \/ \E c \in AdminIds, id \in IncidentIds, st \in StatusTokens,
           t \in Times : UpdateIncidentStatus(c, id, st, t)
     \/ \E c \in AdminIds, id \in IncidentIds : ResolveIncident(c, id)
     \/ \E c \in AdminIds, t \in Times : ResolveIncidentUpdate(c, t)
  /\ UNCHANGED <<ledgerVars, authVars, dirVars>>

IncidentSpec == Init /\ [][IncidentNext]_vars

\* The stores at the start of the directory runs: empty, or holding a
\* supplier, whose documents POST /api/suppliers cannot write.
SeededPeople == {<<>>, <<Person("Supplier", <<"a", "b">>, <<"c">>)>>}

DirInit ==
  /\ impl \in {"Log", "AccessLog"}
  /\ logs = <<>>
  /\ vlogs = <<>>
  /\ visits = <<>>
  /\ req = [p \in Procs |-> Idle]
  /\ lastResp = NoResp
  /\ incCalls = [k \in VisitKeys |-> 0]
  /\ active = <<>>
  /\ lastOp = [k \in Persons |-> "none"]
  /\ users = <<>>
  /\ tokens = {}
  /\ authResp = AuthResult("none", 0, 0, "")
  /\ areq = [c \in Emails |-> NoApproval]
  /\ incidents = <<>>
  /\ ireq = [c \in AdminIds |-> 0]
  /\ incidentResp = IncidentResult("none", 0, "")
  /\ people \in SeededPeople
  /\ vehicles = <<>>
  /\ found = {}
  /\ dirResp = DirResult("none", 0, "", <<>>)

\* Entries of workers, suppliers and Leoni personnel, and the search.
SearchNext ==
  \/ /\ CheckinStep(1, PeopleIds, PersonTypes, {0}, EntryInputs, NoteLens)
     /\ UNCHANGED authVars
     /\ UNCHANGED incidentVars
     /\ UNCHANGED dirVars
  \/ \E n \in Names, i \in Idents : CreateWorker(n, i)
  \/ \E n \in Names, i \in Idents : CreatePersonnel(n, i, 0)
  \/ \E text \in SearchTexts : Search(text)

SearchSpec == DirInit /\ [][SearchNext]_vars

DirNames == {<<"B">>}

\* Create, update and delete of the owners and of the vehicles.
DirNext ==
  \/ \E n \in DirNames, i \in Idents : CreateWorker(n, i)
  \/ \E id \in PeopleIds, n \in DirNames, i \in Idents : UpdateWorker(id, n, i)
  \/ \E id \in PeopleIds : DeleteWorker(id)
  \/ \E i \in Idents : CreateSupplier(i)
  \/ \E id \in PeopleIds, i \in Idents : UpdateSupplier(id, i)
  \/ \E id \in PeopleIds : DeleteSupplier(id)
  \/ \E n \in DirNames, i \in Idents, pl \in Plates \cup {0} :
       CreatePersonnel(n, i, pl)
  \/ \E id \in PeopleIds, n \in DirNames, i \in Idents,
        pl \in Plates \cup {0} : UpdatePersonnel(id, n, i, pl)
  \/ \E id \in PeopleIds : DeletePersonnel(id)
  \/ \E pl \in Plates, o \in PeopleIds, ot \in OwnerTypeInputs :
       CreateVehicle(pl, o, ot)
  \/ \E id \in VehicleDocIds, pl \in Plates, o \in PeopleIds,
        ot \in OwnerTypeInputs : UpdateVehicle(id, pl, o, ot)
  \/ \E id \in VehicleDocIds : DeleteVehicle(id)

DirSpec == DirInit /\ [][DirNext]_vars

----------------------------------------------------------------------------
(* Properties of the presence ledger *)

\* The entries of a person that count as "currently inside".
OpenIds(person, ptype) ==
  {i \in DOMAIN logs : /\ logs[i].person = person
                       /\ logs[i].personType = ptype
                       /\ logs[i].status \in {"entry", "present"}
                       /\ logs[i].exitTime = Absent}

\* C1: when check-in and check-out requests are served one at a time, every
\* (personId, personType) has at most one entry with status entry or present
\* and no exitTime.
C1_AtMostOneOpen ==
  \A person \in PersonIds, ptype \in PersonTypes :
    Cardinality(OpenIds(person, ptype)) <= 1

\* A person is inside again after a completed visit, and the check-in that
\* was tried on top of the open entry was turned down.
C1_Witness ==
  \E i, j \in DOMAIN logs :
    /\ i < j
    /\ logs[i].person = logs[j].person
    /\ logs[i].personType = logs[j].personType
    /\ logs[i].status = "exit"
    /\ j \in OpenIds(logs[j].person, logs[j].personType)
    /\ lastResp.op = "checkin" /\ lastResp.kind = "already"
    /\ lastResp.person = logs[j].person
    /\ lastResp.personType = logs[j].personType

\* C2: when two check-ins of the same person interleave, the store refuses
\* the duplicate: two open entries of one person never coexist.
C2_NoTwoOpenCoexist ==
  \A i, j \in DOMAIN logs :
    (/\ i # j
     /\ logs[i].person = logs[j].person
     /\ logs[i].personType = logs[j].personType
     /\ logs[i].exitTime = Absent
     /\ logs[i].status # "exit")
    => (logs[j].exitTime # Absent \/ logs[j].status = "exit")

----------------------------------------------------------------------------
(* Properties of the login routes *)

\* C3: no login route answers with a token for an account that is not
\* approved or not active.
C3_TokenOnlyIfApprovedActive ==
  (authResp.op \in {"login", "userlogin"} /\ authResp.kind = "ok")
    => /\ users[authResp.user].isApproved
       /\ users[authResp.user].isActive

----------------------------------------------------------------------------
(* Properties of the stored durations and of the vehicle mirror *)

WholeMinutes(entry, exit) ==
  IF exit < entry THEN 0 ELSE (exit - entry) \div TicksPerMinute

\* C4: every stored entry with both dates has duration
\* max(0, floor((exitTime - entryTime) / 60000)), and no stored entry has a
\* negative duration.
C4_DurationClamped ==
  \A i \in DOMAIN logs :
    /\ logs[i].duration >= 0
    /\ (logs[i].entryTime # Absent /\ logs[i].exitTime # Absent)
         => logs[i].duration = WholeMinutes(logs[i].entryTime,
                                            logs[i].exitTime)

\* C5: a vehicle log whose entry has status exit carries the entry's exitTime
\* as exit_time, and every vehicle log carries its entry's entryTime as
\* entry_time.
C5_VehicleMirror ==
  \A v \in DOMAIN vlogs :
    /\ vlogs[v].entry_time = logs[vlogs[v].log].entryTime
    /\ logs[vlogs[v].log].status = "exit"
         => vlogs[v].exit_time = logs[vlogs[v].log].exitTime

----------------------------------------------------------------------------
(* Properties of the monthly visit counter *)

CountersOf(vs, k) ==
  {i \in DOMAIN vs : vs[i].supplier = k[1] /\ vs[i].month = k[2]}

\* C6: after N calls of incrementVisit for a supplier and a month, made one
\* after the other, there is no counter when N = 0 and exactly one counter,
\* with visitCount = N, otherwise; the call answers with that count.
C6_CountEqualsCalls ==
  /\ \A k \in VisitKeys :
       IF incCalls[k] = 0
         THEN CountersOf(visits, k) = {}
         ELSE /\ Cardinality(CountersOf(visits, k)) = 1
              /\ \A i \in CountersOf(visits, k) :
                   visits[i].visitCount = incCalls[k]
  /\ lastResp.op = "incrementVisit"
       => \E m \in Months :
            /\ incCalls[<<lastResp.person, m>>] = lastResp.monthly
            /\ lastResp.monthly >= 1

\* A supplier was counted on both dates of January and once in February.
C6_Witness ==
  \E s \in SupplierIds :
    /\ incCalls[<<s, "1970-01">>] >= 2
    /\ incCalls[<<s, "1970-02">>] = 1
    /\ \E i \in DOMAIN visits :
         /\ visits[i].supplier = s
         /\ visits[i].month = "1970-01"
         /\ visits[i].visitCount = incCalls[<<s, "1970-01">>]
         /\ visits[i].lastVisit = FirstTick - TickStep

\* C7: each incrementVisit of interleaved check-ins succeeds and leaves
\* exactly one counter for its key, with a visitCount one above the count the
\* key had before the call (0 when there was no counter).
C7_ConcurrentIncrement ==
  [][\A k \in VisitKeys :
       incCalls'[k] = incCalls[k] + 1
         => /\ Cardinality(CountersOf(visits', k)) = 1
            /\ Cardinality(CountersOf(visits, k)) <= 1
            /\ \A j \in CountersOf(visits', k) :
                 /\ visits'[j].visitCount = incCalls[k] + 1
                 /\ lastResp'.kind = "ok"
                 /\ lastResp'.monthly = visits'[j].visitCount
                 /\ \A i \in CountersOf(visits, k) :
                      visits'[j].visitCount = visits[i].visitCount + 1]_vars

\* Two check-ins of one supplier were both saved before either was counted:
\* the first has been counted and the second is about to be.
C7_Witness ==
  \E p \in Procs, k \in VisitKeys :
    /\ req[p].op = "checkin" /\ req[p].pc = "visit"
    /\ k = <<req[p].doc.person, MonthKey(req[p].doc.entryTime)>>
    /\ incCalls[k] = 1
    /\ \A i \in CountersOf(visits, k) : visits[i].visitCount = 1
    /\ CountersOf(visits, k) # {}
    /\ Len(logs) = 2
    /\ \A i \in DOMAIN logs : MonthKey(logs[i].entryTime) = k[2]

----------------------------------------------------------------------------
(* Properties of the rejected requests *)

\* The request whose first step this is: it was answered at once (no slot
\* moved) or it went on to its save.
Answered(op) == req' = req /\ lastResp' # lastResp /\ lastResp'.op = op

Started(p, op) == req[p].pc = "idle" /\ req'[p].op = op

StoresUnchanged ==
  /\ logs' = logs
  /\ vlogs' = vlogs
  /\ visits' = visits
  /\ incCalls' = incCalls

\* C8: a check-in of a person who has an open entry is answered with
\* "already checked in" and writes nothing: no entry, no vehicle log, no
\* counter.
C8_CheckinOnOpenRejected ==
  [][/\ \A p \in Procs :
          Started(p, "checkin")
            => OpenIds(req'[p].person, req'[p].personType) = {}
     /\ (/\ Answered("checkin")
         /\ OpenIds(lastResp'.person, lastResp'.personType) # {})
          => lastResp'.kind = "already" /\ StoresUnchanged]_vars

\* The check-in of a person who is inside with a vehicle was turned down.
C8_Witness ==
  /\ lastResp.op = "checkin" /\ lastResp.kind = "already"
  /\ \E i \in OpenIds(lastResp.person, lastResp.personType) :
       VehicleLogsOf(i) # {}
  /\ \A p \in Procs : req[p].pc = "idle"

\* C9: a check-out of a person who has no open entry is answered with "no
\* active entry" and leaves the entries and the vehicle logs as they were.
C9_CheckoutWithoutOpenRejected ==
  [][/\ \A p \in Procs :
          Started(p, "checkout")
            => OpenIds(req'[p].person, req'[p].personType) # {}
     /\ (/\ Answered("checkout")
         /\ lastResp'.person \in PersonIds
         /\ lastResp'.personType \in PersonTypes
         /\ OpenIds(lastResp'.person, lastResp'.personType) = {})
          => lastResp'.kind = "noactive" /\ StoresUnchanged]_vars

\* The check-out of a person was turned down while the same person id is
\* inside under another person type, or after the person's own check-out.
C9_Witness ==
  /\ lastResp.op = "checkout" /\ lastResp.kind = "noactive"
  /\ OpenIds(lastResp.person, lastResp.personType) = {}
  /\ \E i \in DOMAIN logs :
       /\ logs[i].person = lastResp.person
       /\ logs[i].personType # lastResp.personType
       /\ logs[i].exitTime = Absent
  /\ \E i \in DOMAIN logs :
       /\ logs[i].person = lastResp.person
       /\ logs[i].personType = lastResp.personType
       /\ logs[i].status = "exit"

\* C10: the save of a check-out whose exitTime lies before the entry's
\* entryTime goes through: the entry is stored with status exit, the given
\* exitTime and duration 0, and no error is answered.
C10_EarlyExitClosesWithZero ==
  [][\A p \in Procs :
       (/\ req[p].op = "checkout" /\ req[p].pc = "save"
        /\ req[p].doc.exitTime < req[p].doc.entryTime
        /\ req'[p] # req[p])
         => /\ logs'[req[p].id].status = "exit"
            /\ logs'[req[p].id].exitTime = req[p].doc.exitTime
            /\ logs'[req[p].id].duration = 0
            /\ req'[p].pc = "idle" => lastResp'.kind = "ok"]_vars

----------------------------------------------------------------------------
(* Properties of the accounts *)

Registered(e) == \E i \in DOMAIN users : users[i].present /\ users[i].email = e

AccountOf(e) ==
  users[CHOOSE i \in DOMAIN users : users[i].present /\ users[i].email = e]

\* C11: the login of the auth routes answers "invalid credentials" for an
\* unknown email or a wrong password whatever the flags; with the right
\* password "pending approval" when isApproved is false whatever isActive;
\* "deactivated" when isApproved is true and isActive is false; and it
\* issues a token only when all three checks pass.
C11_LoginCheckOrder ==
  [][\A e \in Emails, ok \in BOOLEAN :
       Login(e, ok) =>
         /\ (~Registered(e) \/ ~ok) => authResp'.kind = "invalid"
         /\ (Registered(e) /\ ok /\ ~AccountOf(e).isApproved)
              => authResp'.kind = "pending_approval"
         /\ (Registered(e) /\ ok /\ AccountOf(e).isApproved
               /\ ~AccountOf(e).isActive)
              => authResp'.kind = "deactivated"
         /\ authResp'.kind = "ok"
              <=> (/\ Registered(e) /\ ok
                   /\ AccountOf(e).isApproved
                   /\ AccountOf(e).isActive)
         /\ authResp'.kind # "ok" => tokens' = tokens
         /\ authResp'.op = "login"]_vars

\* The login of an account that is active but not approved was answered
\* with "pending approval", and no token was issued to it.
C11_Witness ==
  /\ authResp.op = "login" /\ authResp.kind = "pending_approval"
  /\ users[authResp.user].isActive
  /\ ~users[authResp.user].isApproved
  /\ authResp.user \notin tokens

\* C12: an approval of an approved sos account is answered "already
\* approved", one of a missing account "not found" and one of an account
\* that is not sos "not eligible"; none of them writes an account or goes
\* on to a save.
C12_ApproveRejections ==
  [][\A c \in Emails, id \in Emails :
       (ApproveUserFirst(c, id) \/ ApproveUserSecond(c, id)) =>
         /\ id \notin DOMAIN users
              => authResp'.kind = "notfound" /\ authResp'.code = 404
         /\ (id \in DOMAIN users /\ users[id].role # "sos")
              => authResp'.kind = "noteligible"
         /\ (id \in DOMAIN users /\ users[id].role = "sos"
               /\ users[id].isApproved)
              => authResp'.kind = "already"
         /\ (id \notin DOMAIN users \/ users[id].role # "sos"
               \/ users[id].isApproved)
              => /\ users' = users
                 /\ areq' = areq
                 /\ authResp'.op = "approve"
                 /\ authResp'.code \in {400, 404}]_vars

\* An account that an admin approved was approved a second time, and the
\* second approval was turned down.
C12_Witness ==
  /\ authResp.op = "approve" /\ authResp.kind = "already"
  /\ users[authResp.user].isApproved
  /\ users[authResp.user].approvedBy # 0
  /\ \A c \in Emails : areq[c].pc = "idle"

\* C13: approvedBy and approvedAt of an account are written only by the
\* approval of a pending sos account, and only while they are still unset:
\* a new account has them unset and no step writes them a second time.
C13_ApprovalWrittenOnce ==
  [][\A i \in DOMAIN users' :
       IF i \in DOMAIN users
         THEN (\/ users'[i].approvedBy # users[i].approvedBy
               \/ users'[i].approvedAt # users[i].approvedAt)
                => /\ users[i].role = "sos"
                   /\ ~users[i].isApproved
                   /\ users[i].approvedBy = 0
                   /\ users[i].approvedAt = Absent
         ELSE /\ users'[i].approvedBy = 0
              /\ users'[i].approvedAt = Absent]_vars

\* C14: a registered sos account starts with isApproved and isActive false,
\* and the step that approves an account writes isApproved, approvedBy and
\* approvedAt and leaves its isActive, email and role as they were.
C14_ApproveLeavesActive ==
  [][\A i \in DOMAIN users' :
       IF i \in DOMAIN users
         THEN (~users[i].isApproved /\ users'[i].isApproved)
                => /\ users'[i].isActive = users[i].isActive
                   /\ users'[i].email = users[i].email
                   /\ users'[i].role = users[i].role
                   /\ users'[i].approvedBy # 0
                   /\ users'[i].approvedAt # Absent
         ELSE users'[i].role = "sos"
                => ~users'[i].isApproved /\ ~users'[i].isActive]_vars

----------------------------------------------------------------------------
(* Properties of the incidents *)

StatusRank(st) ==
  IF st = "pending" THEN 0 ELSE IF st = "resolved" THEN 2 ELSE 1

\* C15: the status of an incident only moves forward in the order
\* pending < {approved, rejected} < resolved: no step takes an incident back
\* to pending, and no step changes the status of a resolved incident.
C15_StatusForwardOnly ==
  [][\A i \in DOMAIN incidents :
       /\ StatusRank(incidents'[i].status) >= StatusRank(incidents[i].status)
       /\ incidents[i].status = "resolved"
            => incidents'[i].status = "resolved"]_vars

\* C16: resolvedAt is set by the step that resolves an incident, approvedBy
\* and approvedAt by the step that approves or rejects it, and a field that
\* is set is never written again.
C16_StampsSetOnce ==
  [][\A i \in DOMAIN incidents :
       /\ (incidents[i].status # "resolved"
             /\ incidents'[i].status = "resolved")
            => incidents'[i].resolvedAt # Absent
       /\ (incidents[i].status = "pending"
             /\ incidents'[i].status \in {"approved", "rejected"})
            => incidents'[i].approvedBy # 0
               /\ incidents'[i].approvedAt # Absent
       /\ incidents[i].resolvedAt # Absent
            => incidents'[i].resolvedAt = incidents[i].resolvedAt
       /\ incidents[i].approvedAt # Absent
            => incidents'[i].approvedAt = incidents[i].approvedAt
       /\ incidents[i].approvedBy # 0
            => incidents'[i].approvedBy = incidents[i].approvedBy]_vars

----------------------------------------------------------------------------
(* Properties of the side effects of a check-in and of a check-out *)

\* C17: when the counter increment of a Supplier check-in fails, the entry
\* stays stored and open and the request goes on as a success whose
\* monthlyVisitCount is null: it is answered 201 at once when there is no
\* vehicle, and after the vehicle log is saved otherwise.
C17_CounterFailureKeepsCheckin ==
  [][\A p \in Procs :
       /\ (/\ req[p].op = "checkin" /\ req[p].pc = "visit"
           /\ req'[p] # req[p]
           /\ visits' = visits)
            => /\ logs' = logs
               /\ logs[req[p].id].status = "entry"
               /\ logs[req[p].id].exitTime = Absent
               /\ IF req'[p].pc = "idle"
                    THEN /\ lastResp'.op = "checkin"
                         /\ lastResp'.kind = "ok"
                         /\ lastResp'.monthly = Absent
                    ELSE /\ req'[p].pc = "vehicle"
                         /\ req'[p].monthly = Absent
                         /\ req'[p].id = req[p].id
       /\ (/\ req[p].op = "checkin" /\ req[p].pc = "vehicle"
           /\ req[p].doc.personType = "Supplier"
           /\ req[p].monthly = Absent
           /\ vlogs' # vlogs)
            => /\ logs' = logs
               /\ lastResp'.kind = "ok"
               /\ lastResp'.monthly = Absent]_vars

\* A Supplier was checked in with a null monthlyVisitCount: the entry is
\* open and no counter exists.
C17_Witness ==
  /\ lastResp.op = "checkin" /\ lastResp.kind = "ok"
  /\ lastResp.personType = "Supplier"
  /\ lastResp.monthly = Absent
  /\ visits = <<>>
  /\ OpenIds(lastResp.person, "Supplier") # {}
  /\ \A p \in Procs : req[p].pc = "idle"

\* C18: a request whose entry has been saved (check-in) or closed
\* (check-out) is answered as a success, whatever becomes of its vehicle
\* log, and the entry stays as saved.
C18_VehicleFailureKeepsSuccess ==
  [][\A p \in Procs :
       (/\ req[p].pc \in {"visit", "vehicle", "vfind", "vsave", "vupdate"}
        /\ req'[p].pc = "idle")
         => /\ lastResp'.kind = "ok"
            /\ logs' = logs]_vars

\* The entries that the check-ins of a supplier in a month have stored.
SupplierCheckins(k) ==
  {i \in DOMAIN logs : /\ logs[i].person = k[1]
                       /\ logs[i].personType = "Supplier"
                       /\ MonthKey(logs[i].entryTime) = k[2]}

VisitCountOf(k) ==
  IF CountersOf(visits, k) = {} THEN 0
  ELSE visits[CHOOSE i \in CountersOf(visits, k) : TRUE].visitCount

\* C19: with no failed increment, whenever no request is in flight the
\* visitCount of every supplier and month is the number of Supplier
\* check-ins of that supplier that succeeded with an entryTime in that month
\* (so that the check-ins of other person types, the rejected check-ins and
\* the check-outs leave every counter as it was).
C19_CountEqualsCheckins ==
  (\A p \in Procs : req[p].pc = "idle")
    => \A k \in VisitKeys :
         VisitCountOf(k) = Cardinality(SupplierCheckins(k))

\* C20: an entry with status exit is never written again: no step changes
\* its status, entryTime, exitTime, duration or notes.
C20_ClosedEntryFrozen ==
  [][\A i \in DOMAIN logs :
       logs[i].status = "exit"
         => /\ logs'[i].status = logs[i].status
            /\ logs'[i].entryTime = logs[i].entryTime
            /\ logs'[i].exitTime = logs[i].exitTime
            /\ logs'[i].duration = logs[i].duration
            /\ logs'[i].notes = logs[i].notes]_vars

----------------------------------------------------------------------------
(* Properties of the list of active entries *)

EntriesOf(s, k) ==
  {a \in DOMAIN s : logs[s[a]].person = k[1] /\ logs[s[a]].personType = k[2]}

----------------------------------------------------------------------------
(* Properties of the vehicle logs *)

----------------------------------------------------------------------------
(* Properties of the manual entries *)

\* C23: with check-ins, check-outs and manual entries served one at a time,
\* no (personId, personType) ever has two entries with status entry or
\* present and no exitTime.
C23_AtMostOneOpenWithManual ==
  \A k \in Persons : \A i, j \in OpenIds(k[1], k[2]) : i = j

----------------------------------------------------------------------------
(* Properties of the registered admin account *)

\* C24: an account registered with role admin is approved and active when
\* the registration is answered, and a login of the auth routes with its
\* password right after the registration is answered with a token.
C24_AdminRegisterThenLogin ==
  [][/\ (/\ authResp'.op = "register" /\ authResp'.kind = "ok"
         /\ users'[authResp'.user].role = "admin")
          => /\ users'[authResp'.user].isApproved
             /\ users'[authResp'.user].isActive
     /\ \A e \in Emails :
          (/\ authResp.op = "register" /\ authResp.kind = "ok"
           /\ users[authResp.user].role = "admin"
           /\ users[authResp.user].email = e
           /\ Login(e, TRUE))
            => /\ authResp'.kind = "ok"
               /\ authResp.user \in tokens']_vars

----------------------------------------------------------------------------
(* Properties of the search and of the vehicle owners *)

\* C25: a search with a text answers an entry exactly when the text matches
\* the name or the identifier of the entry's owner, whether the owner is a
\* worker, a supplier or a Leoni personnel, the owner being the document of
\* the entry's personType with the entry's person id.
C25_SearchByOwner ==
  [][\A text \in SearchTexts :
       (Search(text) /\ text # <<>>)
         => \A l \in DOMAIN logs :
              l \in found'
                <=> (/\ FindPerson(logs[l].personType, logs[l].person)
                     /\ \/ Matches(text, people[logs[l].person].name)
                        \/ Matches(text, people[logs[l].person].ident))]_vars

\* C30: every stored vehicle's owner is a stored document of the collection
\* its ownerType names, and the deletion of an owner removes the vehicles of
\* that owner and kind and no other vehicle.
C30_VehicleOwnersExist ==
  [][/\ \A v \in DOMAIN vehicles' :
          vehicles'[v] # NoVehicle
            => /\ vehicles'[v].owner \in DOMAIN people'
               /\ people'[vehicles'[v].owner].kind = vehicles'[v].ownerType
     /\ \A id \in PeopleIds :
          (DeleteWorker(id) \/ DeleteSupplier(id) \/ DeletePersonnel(id))
            => \A v \in DOMAIN vehicles :
                 (vehicles'[v] # vehicles[v])
                   => /\ vehicles[v].owner = id
                      /\ FindPerson(vehicles[v].ownerType, id)]_vars

----------------------------------------------------------------------------
(* Properties of the check-out notes *)

\* C26: a check-out that found the person's open entry is answered with
\* success and leaves the person without open entry, whatever the notes of
\* the request and of the entry.
C26_CheckoutClosesWhateverNotes ==
  [][\A p \in Procs :
       (req[p].op = "checkout" /\ req'[p].pc = "idle")
         => /\ lastResp'.kind = "ok"
            /\ \A i \in DOMAIN logs' :
                 (/\ logs'[i].person = req[p].person
                  /\ logs'[i].personType = req[p].personType)
                   => ~IsOpen(logs'[i])]_vars

----------------------------------------------------------------------------
(* Properties of the tokens and of the admin's own account *)

\* C27: a request that carries the token of an account which toggle-status
\* has deactivated is rejected by each of the middlewares verifyToken,
\* isAdmin and isSOS, also when the token was issued before the
\* deactivation.
C27_DeactivatedTokenRejected ==
  [][\A c \in Emails, g \in Gates :
       (/\ GatedRequest(c, g)
        /\ authResp.op = "toggle" /\ authResp.kind = "ok"
        /\ authResp.user = c
        /\ ~users[c].isActive)
         => authResp'.code \in {401, 403}]_vars

\* C28: from the empty account store, with registrations, logins of the
\* auth routes and the admin routes behind isAdmin, some account comes to
\* hold a token.
C28_SomeAccountGetsToken == <>(tokens # {})

\* C29: toggle-status, delete-user and reject-user called by an admin leave
\* that admin's account stored and its isActive as it was.
C29_AdminKeepsOwnAccount ==
  [][\A c \in Emails, id \in Emails :
       (ToggleStatus(c, id) \/ DeleteUser(c, id) \/ RejectUser(c, id))
         => /\ users'[c].present
            /\ users'[c].isActive = users[c].isActive]_vars

====
